---- MODULE Spec2Model ----
(***************************************************************************)
(* Deduction / marginal-rate engine of the student loan calculator         *)
(* (src/src/components/StudentLoanCalculator.jsx).                         *)
(*                                                                         *)
(* Numbers.  The code computes in IEEE doubles; the model computes in      *)
(* exact fixed point.  A rate field of a parameter record is held in       *)
(* percent (0.2 is 20, 0.5 is 50).  A rate returned by                     *)
(* calculateMarginalRate is held in units of 1/10000 (0.2 is 2000), so     *)
(* that the product basicRate * paTaperRate is exact.  An amount returned  *)
(* by calculateDeductions is held in units of 1/10000 of the income unit.  *)
(* Incomes and thresholds are whole numbers of the income unit.            *)
(***************************************************************************)
EXTENDS Integers, Sequences, FiniteSets, TLC

\* Number of parameter-record rate units in 1.0: the code's "* 100" that
\* turns a rate into a percentage (generateMarginalRateData).
Percent == 100

\* One unit of income, in the units of a calculateDeductions amount
Unit == Percent * Percent

Max(a, b) == IF a >= b THEN a ELSE b
Min(a, b) == IF a <= b THEN a ELSE b

(***************************************************************************)
(* Bounds of the model                                                     *)
(***************************************************************************)
\* thresholds of the small parameter records are 0, 2, .., 2 * MaxThreshold
MaxThreshold == 3
\* incomes tried with the small parameter records are 0 .. MaxIncome
MaxIncome == 9

(***************************************************************************)
(* Parameter records                                                       *)
(***************************************************************************)
DEFAULT_PARAMS ==
  [ personalAllowance   |-> 12570,
    basicRate           |-> 20,
    higherRate          |-> 40,
    additionalRate      |-> 45,
    basicRateThreshold  |-> 50270,
    higherRateThreshold |-> 125140,
    paTaperThreshold    |-> 100000,
    paTaperRate         |-> 50,
    niPrimaryThreshold  |-> 12570,
    niUEL               |-> 50270,
    niMainRate          |-> 8,
    niHigherRate        |-> 2,
    slRepaymentRate     |-> 9,
    slPlan1Threshold    |-> 27039,
    slPlan2Threshold    |-> 29385,
    slPlan4Threshold    |-> 33970,
    slPlan5Threshold    |-> 25000,
    slPostgradThreshold |-> 22722,
    slPostgradRate      |-> 6 ]

PLAN_OPTIONS == {"none", "plan1", "plan2", "plan4", "plan5"}

\* PLAN_OPTIONS[..].threshold: the threshold field each plan names
\* (null for "none", which has no threshold: no value of the model)
planThresholdField(p, plan) ==
  CASE plan = "plan1" -> p.slPlan1Threshold
    [] plan = "plan2" -> p.slPlan2Threshold
    [] plan = "plan4" -> p.slPlan4Threshold
    [] plan = "plan5" -> p.slPlan5Threshold

(***************************************************************************)
(* The parameter table: cells, rows, parseFloat / parseInt, parseParamsRow *)
(***************************************************************************)
\* A cell of the table is a text.  Number(n) is a numeral, of value n in
\* the units of the model (rates in percent, interest rates in 1/1000);
\* NumberThenText(n) is a numeral followed by other characters ("25 yrs");
\* Text is a text that does not start with a numeral ("n/a", "").
Number(n) == [ kind |-> "number", value |-> n ]
NumberThenText(n) == [ kind |-> "number then text", value |-> n ]
Text == [ kind |-> "text", value |-> 0 ]

\* The value parseFloat and parseInt return for a text that does not start
\* with a numeral: NaN, held as a number no cell of the model holds
NaN == -1

\* row.column: undefined, which parses as a text does, when the header
\* has no such column
cellOf(row, column) ==
  IF column \in DOMAIN row THEN row[column] ELSE Text

\* parseFloat and parseInt read the leading numeral and ignore the rest
parseFloat(cell) ==
  IF cell.kind = "text" THEN NaN ELSE cell.value

parseInt(cell) ==
  IF cell.kind = "text" THEN NaN ELSE cell.value

\* v || d: NaN and 0 are falsy
OrElse(v, d) ==
  IF v = NaN \/ v = 0 THEN d ELSE v

parseParamsRow(row) ==
  [ personalAllowance   |-> parseFloat(cellOf(row, "personal_allowance")),
    basicRate           |-> parseFloat(cellOf(row, "basic_rate")),
    higherRate          |-> parseFloat(cellOf(row, "higher_rate")),
    additionalRate      |-> parseFloat(cellOf(row, "additional_rate")),
    basicRateThreshold  |-> parseFloat(cellOf(row, "basic_rate_threshold")),
    higherRateThreshold |-> parseFloat(cellOf(row, "higher_rate_threshold")),
    paTaperThreshold    |-> parseFloat(cellOf(row, "pa_taper_threshold")),
    paTaperRate         |-> parseFloat(cellOf(row, "pa_taper_rate")),
    niPrimaryThreshold  |-> parseFloat(cellOf(row, "ni_primary_threshold")),
    niUEL               |-> parseFloat(cellOf(row, "ni_upper_earnings_limit")),
    niMainRate          |-> parseFloat(cellOf(row, "ni_main_rate")),
    niHigherRate        |-> parseFloat(cellOf(row, "ni_higher_rate")),
    slRepaymentRate     |-> parseFloat(cellOf(row, "sl_repayment_rate")),
    slPlan1Threshold    |-> parseFloat(cellOf(row, "sl_plan1_threshold")),
    slPlan2Threshold    |-> parseFloat(cellOf(row, "sl_plan2_threshold")),
    slPlan4Threshold    |-> parseFloat(cellOf(row, "sl_plan4_threshold")),
    slPlan5Threshold    |-> parseFloat(cellOf(row, "sl_plan5_threshold")),
    slPostgradThreshold |-> parseFloat(cellOf(row, "sl_postgrad_threshold")),
    slPostgradRate      |-> parseFloat(cellOf(row, "sl_postgrad_rate")),
    slPlan1Interest     |-> OrElse(parseFloat(cellOf(row, "sl_plan1_interest")), 45),
    slPlan2InterestMin  |-> OrElse(parseFloat(cellOf(row, "sl_plan2_interest_min")), 45),
    slPlan2InterestMax  |-> OrElse(parseFloat(cellOf(row, "sl_plan2_interest_max")), 78),
    slPlan4Interest     |-> OrElse(parseFloat(cellOf(row, "sl_plan4_interest")), 45),
    slPlan5Interest     |-> OrElse(parseFloat(cellOf(row, "sl_plan5_interest")), 45),
    slPlan1Writeoff     |-> OrElse(parseInt(cellOf(row, "sl_plan1_writeoff")), 25),
    slPlan2Writeoff     |-> OrElse(parseInt(cellOf(row, "sl_plan2_writeoff")), 30),
    slPlan4Writeoff     |-> OrElse(parseInt(cellOf(row, "sl_plan4_writeoff")), 30),
    slPlan5Writeoff     |-> OrElse(parseInt(cellOf(row, "sl_plan5_writeoff")), 40) ]

\* The column a field of the record is read from
ColumnField ==
  [ personal_allowance      |-> "personalAllowance",
    basic_rate              |-> "basicRate",
    higher_rate             |-> "higherRate",
    additional_rate         |-> "additionalRate",
    basic_rate_threshold    |-> "basicRateThreshold",
    higher_rate_threshold   |-> "higherRateThreshold",
    pa_taper_threshold      |-> "paTaperThreshold",
    pa_taper_rate           |-> "paTaperRate",
    ni_primary_threshold    |-> "niPrimaryThreshold",
    ni_upper_earnings_limit |-> "niUEL",
    ni_main_rate            |-> "niMainRate",
    ni_higher_rate          |-> "niHigherRate",
    sl_repayment_rate       |-> "slRepaymentRate",
    sl_plan1_threshold      |-> "slPlan1Threshold",
    sl_plan2_threshold      |-> "slPlan2Threshold",
    sl_plan4_threshold      |-> "slPlan4Threshold",
    sl_plan5_threshold      |-> "slPlan5Threshold",
    sl_postgrad_threshold   |-> "slPostgradThreshold",
    sl_postgrad_rate        |-> "slPostgradRate",
    sl_plan1_interest       |-> "slPlan1Interest",
    sl_plan2_interest_min   |-> "slPlan2InterestMin",
    sl_plan2_interest_max   |-> "slPlan2InterestMax",
    sl_plan4_interest       |-> "slPlan4Interest",
    sl_plan5_interest       |-> "slPlan5Interest",
    sl_plan1_writeoff       |-> "slPlan1Writeoff",
    sl_plan2_writeoff       |-> "slPlan2Writeoff",
    sl_plan4_writeoff       |-> "slPlan4Writeoff",
    sl_plan5_writeoff       |-> "slPlan5Writeoff" ]

\* The row of a well-formed table for tax year y and record p
rowOf(y, p) ==
  [ c \in {"year"} \cup { c \in DOMAIN ColumnField : ColumnField[c] \in DOMAIN p }
      |-> IF c = "year" THEN Number(y) ELSE Number(p[ColumnField[c]]) ]

\* paramsMap after the loop over the lines: the record of the last row of
\* each year, the year being parseInt(row.year)
paramsMapOf(lines) ==
  LET yearOf(i) == parseInt(cellOf(lines[i], "year"))
      lastOf(y) == CHOOSE i \in DOMAIN lines :
                     /\ yearOf(i) = y
                     /\ \A j \in DOMAIN lines : yearOf(j) = y => j <= i
  IN  [ y \in { yearOf(i) : i \in DOMAIN lines } |->
          parseParamsRow(lines[lastOf(y)]) ]

(***************************************************************************)
(* getPlanThreshold: the string-keyed lookup with its "||" fallback.  A    *)
(* missing key (plan "none") and a falsy value (a threshold of 0, or the  *)
(* NaN of a threshold the table gave as a text) both fall through to the   *)
(* Plan 2 threshold.                                                       *)
(***************************************************************************)
getPlanThreshold(p, plan) ==
  LET looked == CASE plan = "plan1" -> p.slPlan1Threshold
                  [] plan = "plan2" -> p.slPlan2Threshold
                  [] plan = "plan4" -> p.slPlan4Threshold
                  [] plan = "plan5" -> p.slPlan5Threshold
                  [] OTHER -> 0
  IN  IF looked # 0 /\ looked # NaN THEN looked ELSE p.slPlan2Threshold

(***************************************************************************)
(* calculateMarginalRate, one operator per component                       *)
(***************************************************************************)
\* the banded lookup (the if / else-if chain)
bandedRate(grossIncome, p) ==
  IF grossIncome <= p.personalAllowance THEN 0
  ELSE IF grossIncome <= p.basicRateThreshold THEN p.basicRate * Percent
  ELSE IF grossIncome <= p.higherRateThreshold THEN p.higherRate * Percent
  ELSE p.additionalRate * Percent

\* Mutant of itRate: the taper adds basicRate * paTaperRate to whatever the
\* banded lookup found, in place of overwriting it
itRateAdded(grossIncome, p) ==
  IF grossIncome > p.paTaperThreshold /\ grossIncome <= p.higherRateThreshold
  THEN bandedRate(grossIncome, p) + p.basicRate * p.paTaperRate
  ELSE bandedRate(grossIncome, p)

\* Mutant of itRate: the taper rate is a branch of the banded lookup, taken
\* only by incomes the lookup places in the higher-rate band
itRateNested(grossIncome, p) ==
  IF grossIncome <= p.personalAllowance THEN 0
  ELSE IF grossIncome <= p.basicRateThreshold THEN p.basicRate * Percent
  ELSE IF grossIncome <= p.higherRateThreshold
       THEN IF grossIncome > p.paTaperThreshold
            THEN p.higherRate * Percent + p.basicRate * p.paTaperRate
            ELSE p.higherRate * Percent
  ELSE p.additionalRate * Percent

\* the banded lookup, then the taper override that overwrites it
itRate(grossIncome, p) ==
  IF grossIncome > p.paTaperThreshold /\ grossIncome <= p.higherRateThreshold
  THEN p.higherRate * Percent + p.basicRate * p.paTaperRate
  ELSE bandedRate(grossIncome, p)

\* Mutant of niRate: income at a threshold belongs to the band above it
niRateStrict(grossIncome, p) ==
  IF grossIncome < p.niPrimaryThreshold THEN 0
  ELSE IF grossIncome < p.niUEL THEN p.niMainRate * Percent
  ELSE p.niHigherRate * Percent

\* Mutant of niRate: the main rate is charged above the upper earnings
\* limit too
niRateNoUpperLimit(grossIncome, p) ==
  IF grossIncome <= p.niPrimaryThreshold THEN 0
  ELSE p.niMainRate * Percent

niRate(grossIncome, p) ==
  IF grossIncome <= p.niPrimaryThreshold THEN 0
  ELSE IF grossIncome <= p.niUEL THEN p.niMainRate * Percent
  ELSE p.niHigherRate * Percent

\* Mutant of slRate: the plan is not tested, so that "none" is charged
\* against the threshold getPlanThreshold falls back to
slRateAnyPlan(grossIncome, p, plan) ==
  LET planThreshold == getPlanThreshold(p, plan)
  IN  IF grossIncome > planThreshold
      THEN p.slRepaymentRate * Percent
      ELSE 0

slRate(grossIncome, p, plan) ==
  LET planThreshold == getPlanThreshold(p, plan)
  IN  IF plan # "none" /\ grossIncome > planThreshold
      THEN p.slRepaymentRate * Percent
      ELSE 0

\* Mutant of postgradRate: the threshold itself is charged
postgradRateInclusive(grossIncome, p, hasPostgrad) ==
  IF hasPostgrad /\ grossIncome >= p.slPostgradThreshold
  THEN p.slPostgradRate * Percent
  ELSE 0

postgradRate(grossIncome, p, hasPostgrad) ==
  IF hasPostgrad /\ grossIncome > p.slPostgradThreshold
  THEN p.slPostgradRate * Percent
  ELSE 0

\* Mutant of calculateMarginalRate: totalRate leaves the postgraduate rate
\* out (the sum as it was before the postgraduate loan was added)
calculateMarginalRateNoPostgradInTotal(grossIncome, p, plan, hasPostgrad) ==
  LET it == itRate(grossIncome, p)
      n  == niRate(grossIncome, p)
      sl == slRate(grossIncome, p, plan)
      pg == postgradRate(grossIncome, p, hasPostgrad)
  IN  [ grossIncome     |-> grossIncome,
        incomeTaxRate   |-> it,
        niRate          |-> n,
        studentLoanRate |-> sl,
        postgradRate    |-> pg,
        totalRate       |-> it + n + sl ]

\* Mutant of calculateMarginalRate: the two loans interact, the postgraduate
\* rate being charged only where the undergraduate loan is not
calculateMarginalRateExclusiveLoans(grossIncome, p, plan, hasPostgrad) ==
  LET it == itRate(grossIncome, p)
      n  == niRate(grossIncome, p)
      sl == slRate(grossIncome, p, plan)
      pg == IF sl > 0 THEN 0 ELSE postgradRate(grossIncome, p, hasPostgrad)
  IN  [ grossIncome     |-> grossIncome,
        incomeTaxRate   |-> it,
        niRate          |-> n,
        studentLoanRate |-> sl,
        postgradRate    |-> pg,
        totalRate       |-> it + n + sl + pg ]

calculateMarginalRate(grossIncome, p, plan, hasPostgrad) ==
  LET it == itRate(grossIncome, p)
      n  == niRate(grossIncome, p)
      sl == slRate(grossIncome, p, plan)
      pg == postgradRate(grossIncome, p, hasPostgrad)
  IN  [ grossIncome     |-> grossIncome,
        incomeTaxRate   |-> it,
        niRate          |-> n,
        studentLoanRate |-> sl,
        postgradRate    |-> pg,
        totalRate       |-> it + n + sl + pg ]

(***************************************************************************)
(* calculateDeductions, one operator per component                         *)
(***************************************************************************)
\* effectivePA, in 1/100 of the income unit
effectivePA(grossIncome, p) ==
  IF grossIncome > p.paTaperThreshold
  THEN LET reduction == (grossIncome - p.paTaperThreshold) * p.paTaperRate
       IN  Max(0, p.personalAllowance * Percent - reduction)
  ELSE p.personalAllowance * Percent

incomeTax(grossIncome, p) ==
  LET taxable == Max(0, grossIncome * Percent - effectivePA(grossIncome, p))
      basicBand == Min(taxable,
                       (p.basicRateThreshold - p.personalAllowance) * Percent)
      higherBand == Min(Max(0, taxable - basicBand),
                        (p.higherRateThreshold - p.basicRateThreshold) * Percent)
      additionalBand == Max(0, taxable - basicBand - higherBand)
  IN  IF taxable > 0
      THEN basicBand * p.basicRate
           + higherBand * p.higherRate
           + additionalBand * p.additionalRate
      ELSE 0

ni(grossIncome, p) ==
  LET mainBand == Min(grossIncome - p.niPrimaryThreshold,
                      p.niUEL - p.niPrimaryThreshold)
  IN  IF grossIncome > p.niPrimaryThreshold
      THEN mainBand * p.niMainRate * Percent
           + (IF grossIncome > p.niUEL
              THEN (grossIncome - p.niUEL) * p.niHigherRate * Percent
              ELSE 0)
      ELSE 0

\* Mutant of studentLoan: the whole income is charged once it is above the
\* threshold
studentLoanCliff(grossIncome, p, plan) ==
  LET planThreshold == getPlanThreshold(p, plan)
  IN  IF plan # "none" /\ grossIncome > planThreshold
      THEN grossIncome * p.slRepaymentRate * Percent
      ELSE 0

\* Mutant of studentLoan: the excess over the threshold is charged without
\* testing that the income is above the threshold
studentLoanUnguarded(grossIncome, p, plan) ==
  LET planThreshold == getPlanThreshold(p, plan)
  IN  IF plan # "none"
      THEN (grossIncome - planThreshold) * p.slRepaymentRate * Percent
      ELSE 0

studentLoan(grossIncome, p, plan) ==
  LET planThreshold == getPlanThreshold(p, plan)
  IN  IF plan # "none" /\ grossIncome > planThreshold
      THEN (grossIncome - planThreshold) * p.slRepaymentRate * Percent
      ELSE 0

postgradLoan(grossIncome, p, hasPostgrad) ==
  IF hasPostgrad /\ grossIncome > p.slPostgradThreshold
  THEN (grossIncome - p.slPostgradThreshold) * p.slPostgradRate * Percent
  ELSE 0

\* Mutant of calculateDeductions: netIncome leaves the postgraduate
\* repayment out
calculateDeductionsNetBeforePostgrad(grossIncome, p, plan, hasPostgrad) ==
  LET it == incomeTax(grossIncome, p)
      n  == ni(grossIncome, p)
      sl == studentLoan(grossIncome, p, plan)
      pg == postgradLoan(grossIncome, p, hasPostgrad)
  IN  [ grossIncome     |-> grossIncome,
        incomeTax       |-> it,
        ni              |-> n,
        studentLoan     |-> sl,
        postgradLoan    |-> pg,
        totalDeductions |-> it + n + sl + pg,
        netIncome       |-> grossIncome * Unit - it - n - sl ]

calculateDeductions(grossIncome, p, plan, hasPostgrad) ==
  LET it == incomeTax(grossIncome, p)
      n  == ni(grossIncome, p)
      sl == studentLoan(grossIncome, p, plan)
      pg == postgradLoan(grossIncome, p, hasPostgrad)
  IN  [ grossIncome     |-> grossIncome,
        incomeTax       |-> it,
        ni              |-> n,
        studentLoan     |-> sl,
        postgradLoan    |-> pg,
        totalDeductions |-> it + n + sl + pg,
        netIncome       |-> grossIncome * Unit - it - n - sl - pg ]

(***************************************************************************)
(* generateMarginalRateData: one row per sampled income, 0, 500, ..,       *)
(* 150000.  Row fields are the rates times 100 (percentages).              *)
(***************************************************************************)
SeriesMaxIncome == 150000
SeriesStep == 500

marginalRateRow(income, p, plan, hasPostgrad) ==
  LET wl  == calculateMarginalRate(income, p, plan, hasPostgrad)
      wol == calculateMarginalRate(income, p, "none", FALSE)
  IN  [ income      |-> income,
        withLoan    |-> wl.totalRate * Percent,
        withoutLoan |-> wol.totalRate * Percent,
        incomeTax   |-> wl.incomeTaxRate * Percent,
        ni          |-> wl.niRate * Percent,
        studentLoan |-> wl.studentLoanRate * Percent,
        postgrad    |-> wl.postgradRate * Percent,
        difference  |-> (wl.totalRate - wol.totalRate) * Percent ]

generateMarginalRateData(p, plan, hasPostgrad) ==
  [ k \in 1 .. (SeriesMaxIncome \div SeriesStep) + 1 |->
      marginalRateRow((k - 1) * SeriesStep, p, plan, hasPostgrad) ]

(***************************************************************************)
(* The parameter records and incomes the model tries.                      *)
(*                                                                         *)
(* Every record satisfies the parameter invariant of the data model: all   *)
(* rates in [0,1], all thresholds >= 0, basicRateThreshold <=              *)
(* higherRateThreshold.  The small records have their thresholds on the    *)
(* even numbers and are tried with every income 0 .. MaxIncome, so that    *)
(* for each threshold T the incomes T - 1 (just below) and T + 1 (just     *)
(* above) are tried and are not thresholds themselves.                     *)
(***************************************************************************)
ThresholdValues == { 2 * k : k \in 0 .. MaxThreshold }

SmallBase ==
  [ personalAllowance   |-> 2,
    basicRate           |-> 20,
    higherRate          |-> 40,
    additionalRate      |-> 45,
    basicRateThreshold  |-> 4,
    higherRateThreshold |-> 6,
    paTaperThreshold    |-> 4,
    paTaperRate         |-> 50,
    niPrimaryThreshold  |-> 2,
    niUEL               |-> 4,
    niMainRate          |-> 8,
    niHigherRate        |-> 2,
    slRepaymentRate     |-> 9,
    slPlan1Threshold    |-> 2,
    slPlan2Threshold    |-> 4,
    slPlan4Threshold    |-> 6,
    slPlan5Threshold    |-> 2,
    slPostgradThreshold |-> 2,
    slPostgradRate      |-> 6 ]

\* <<basicRate, higherRate, additionalRate, paTaperRate>>
IncomeTaxRates == { <<20, 40, 45, 50>>, <<45, 20, 0, 100>> }
\* <<niMainRate, niHigherRate>>
NiRates == { <<8, 2>>, <<100, 0>> }

\* every placing of the four income-tax thresholds, tapered
IncomeTaxRecords ==
  { [ SmallBase EXCEPT !.personalAllowance = pa,
                       !.basicRateThreshold = bt,
                       !.higherRateThreshold = ht,
                       !.paTaperThreshold = tt,
                       !.paTaperRate = r[4],
                       !.basicRate = r[1],
                       !.higherRate = r[2],
                       !.additionalRate = r[3] ] :
      <<pa, bt, ht, tt, r>> \in
        { x \in ThresholdValues \X ThresholdValues \X ThresholdValues
                 \X ThresholdValues \X IncomeTaxRates :
            x[2] <= x[3] } }

\* every placing of the two National Insurance thresholds
NiRecords ==
  { [ SmallBase EXCEPT !.niPrimaryThreshold = pt,
                       !.niUEL = uel,
                       !.niMainRate = r[1],
                       !.niHigherRate = r[2] ] :
      <<pt, uel, r>> \in ThresholdValues \X ThresholdValues \X NiRates }

\* one plan's threshold at a (zero included), the other plans' at b
PlanRecord(plan, a, b) ==
  [ SmallBase EXCEPT
      !.slPlan1Threshold = IF plan = "plan1" THEN a ELSE b,
      !.slPlan2Threshold = IF plan = "plan2" THEN a ELSE b,
      !.slPlan4Threshold = IF plan = "plan4" THEN a ELSE b,
      !.slPlan5Threshold = IF plan = "plan5" THEN a ELSE b ]

LoanRecords ==
  { PlanRecord(plan, a, b) :
      <<plan, a, b>> \in (PLAN_OPTIONS \ {"none"})
                         \X ThresholdValues \X ThresholdValues }
  \cup
  { [ SmallBase EXCEPT !.slPostgradThreshold = t ] : t \in ThresholdValues }

\* the extremes the parameter invariant allows: every rate 0, every rate 1,
\* no taper
ExtremeRecords ==
  { [ SmallBase EXCEPT !.basicRate = r, !.higherRate = r,
                       !.additionalRate = r, !.paTaperRate = t,
                       !.niMainRate = r, !.niHigherRate = r,
                       !.slRepaymentRate = r, !.slPostgradRate = r ] :
      <<r, t>> \in { 0, 100 } \X { 0, 100 } }
  \cup { [ SmallBase EXCEPT !.paTaperRate = 0 ] }

\* Records on the scale of the sampled series (thresholds on and off the
\* 500 grid of generateMarginalRateData)
SeriesRecords ==
  { DEFAULT_PARAMS }
  \cup { [ DEFAULT_PARAMS EXCEPT !.slPlan2Threshold = t,
                                 !.slPostgradThreshold = u ] :
           <<t, u>> \in { <<0, 21000>>, <<29500, 0>> } }

ParamRecords ==
  IncomeTaxRecords \cup NiRecords \cup LoanRecords \cup ExtremeRecords
  \cup SeriesRecords

\* Incomes tried with the records on the real scale: each threshold of
\* DEFAULT_PARAMS with its neighbours, the taper window, the examples
DefaultIncomes ==
  { 12569, 12570, 12571, 22722, 22723, 25000, 25001, 27039, 27040,
    29385, 29386, 33970, 33971, 50269, 50270, 50271, 60000,
    99999, 100000, 100001, 110000, 110001, 116760, 116761,
    125139, 125140, 125141, 150000 }

IncomeDomain(p) ==
  IF p \in SeriesRecords THEN (0 .. MaxIncome) \cup DefaultIncomes
  ELSE 0 .. MaxIncome

(***************************************************************************)
(* State: the inputs of the calculator and the results it derives from     *)
(* them on every render (useMemo).                                         *)
(***************************************************************************)
VARIABLES
  params,               \* the parameter record in use
  exampleSalary,        \* gross income
  selectedPlan,         \* "none", "plan1", "plan2", "plan4", "plan5"
  showPostgrad,         \* postgraduate flag
  withLoan,             \* calculateDeductions(.., selectedPlan, showPostgrad)
  marginalWithLoan,     \* calculateMarginalRate(.., selectedPlan, showPostgrad)
  csvLines,             \* the rows of the fetched parameter table
  allParams,            \* the loaded parameter table: tax year -> record
  paramsLoaded,         \* the load of the parameter table has settled
  errorLogged,          \* console.error was called by the load
  selectedYear,         \* tax year
  age,                  \* age input (the variants with an age control)
  graduationYear,       \* graduation year (the variant with that control)
  tooltip,              \* << >> when hidden, << d >> when point d is shown
  inputs,               \* form inputs (the variant with a Calculate button)
  calculatedInputs,     \* the inputs taken over by the last Calculate click
  hasCalculated,        \* Calculate has been clicked
  apiTimers,            \* pending timers of the /calculate debounce effect
  apiInFlight,          \* /calculate requests awaiting their response,
                        \* in the order they were sent
  apiData,              \* << >> for null, << r >> for response r
  apiLoading,
  apiError,             \* << >> for null, << m >> for message m
  completeMtrTimers,    \* the same five for the /complete-mtr request
  completeMtrInFlight,
  completeMtrData,
  completeMtrLoading,
  completeMtrError,
  lifetimeViewMode,     \* "cumulative" or "annual"
  prevLifetimeViewMode, \* useRef: the view mode of the last rendering
  isAnimating,          \* useRef: a fade-out transition is running
  lifetimeChart,        \* content of the mounted chart container:
                        \* << >> when empty, << c >> when chart c is drawn
  fadeOut               \* << >>, or << t >> for the running fade-out t

\* the variables of the parameter load, those of the other controls, and
\* those of the variants with a Calculate button, with requests to the API
\* and with the lifetime chart
loadVars == << csvLines, allParams, paramsLoaded, errorLogged >>
clockVars == << age, graduationYear >>
formVars == << inputs, calculatedInputs, hasCalculated >>
apiVars == << apiTimers, apiInFlight, apiData, apiLoading, apiError >>
completeMtrVars == << completeMtrTimers, completeMtrInFlight, completeMtrData,
                      completeMtrLoading, completeMtrError >>
chartVars == << lifetimeViewMode, prevLifetimeViewMode, isAnimating,
                lifetimeChart, fadeOut >>
variantVars == << formVars, apiVars, completeMtrVars, chartVars >>

vars == << params, exampleSalary, selectedPlan, showPostgrad,
           withLoan, marginalWithLoan, csvLines, allParams, paramsLoaded,
           errorLogged,
           selectedYear, age, graduationYear, tooltip, variantVars >>

\* The derived results, for inputs s, p, plan, pg
Derived(wl, mwl, s, p, plan, pg) ==
  /\ wl  = calculateDeductions(s, p, plan, pg)
  /\ mwl = calculateMarginalRate(s, p, plan, pg)

\* useState(50000), useState("plan2"), useState(false), useState(2026),
\* useState(28), useState(2026)
InitialSalary == 50000
InitialYear == 2026
InitialAge == 28
InitialGraduationYear == 2026

\* The calculator once the parameter table has loaded, the table supplying
\* one record of the set records for the initial tax year
\* useState({ salary: 50000, age: 28, year: 2026 }) twice, useState(false)
InitialInputs ==
  [ salary |-> InitialSalary, age |-> InitialAge, year |-> InitialYear ]

formIdle ==
  /\ inputs = InitialInputs
  /\ calculatedInputs = InitialInputs
  /\ hasCalculated = FALSE

\* No timer, no request, no data: the state of these variables in the
\* variants that make no request
apiIdle ==
  /\ apiTimers = {} /\ apiInFlight = << >> /\ apiData = << >>
  /\ apiLoading = FALSE /\ apiError = << >>
  /\ completeMtrTimers = {} /\ completeMtrInFlight = << >>
  /\ completeMtrData = << >>
  /\ completeMtrLoading = FALSE /\ completeMtrError = << >>

\* useState('cumulative'), useRef(lifetimeViewMode), useRef(false), and an
\* empty chart container
chartIdle ==
  /\ lifetimeViewMode = "cumulative"
  /\ prevLifetimeViewMode = "cumulative"
  /\ isAnimating = FALSE
  /\ lifetimeChart = << >>
  /\ fadeOut = << >>

InputsInit(records) ==
  /\ params \in records
  /\ csvLines = << rowOf(InitialYear, params) >>
  /\ allParams = [y \in {InitialYear} |-> params]
  /\ paramsLoaded = TRUE
  /\ errorLogged = FALSE
  /\ selectedYear = InitialYear
  /\ age = InitialAge
  /\ graduationYear = InitialGraduationYear
  /\ tooltip = << >>
  /\ exampleSalary = InitialSalary
  /\ selectedPlan = "plan2"
  /\ showPostgrad = FALSE
  /\ Derived(withLoan, marginalWithLoan,
             exampleSalary, params, selectedPlan, showPostgrad)

InitOver(records) ==
  /\ formIdle /\ apiIdle /\ chartIdle
  /\ InputsInit(records)

Init == InitOver(ParamRecords)

setExampleSalary ==
  \E v \in IncomeDomain(params) :
    /\ exampleSalary' = v
    /\ UNCHANGED << params, selectedPlan, showPostgrad,
                    selectedYear, loadVars, clockVars, tooltip >>
    /\ UNCHANGED variantVars
    /\ Derived(withLoan', marginalWithLoan',
               exampleSalary', params', selectedPlan', showPostgrad')

setSelectedPlan ==
  \E v \in PLAN_OPTIONS :
    /\ selectedPlan' = v
    /\ UNCHANGED << params, exampleSalary, showPostgrad,
                    selectedYear, loadVars, clockVars, tooltip >>
    /\ UNCHANGED variantVars
    /\ Derived(withLoan', marginalWithLoan',
               exampleSalary', params', selectedPlan', showPostgrad')

setShowPostgrad ==
  \E v \in BOOLEAN :
    /\ showPostgrad' = v
    /\ UNCHANGED << params, exampleSalary, selectedPlan,
                    selectedYear, loadVars, clockVars, tooltip >>
    /\ UNCHANGED variantVars
    /\ Derived(withLoan', marginalWithLoan',
               exampleSalary', params', selectedPlan', showPostgrad')

Next == setExampleSalary \/ setSelectedPlan \/ setShowPostgrad

Spec == Init /\ [][Next]_vars

\* The same calculator over the records on the scale of the sampled series
SeriesInit == InitOver(SeriesRecords)
SeriesSpec == SeriesInit /\ [][Next]_vars

\* the sampled series of the current inputs (useMemo)
marginalRateData == generateMarginalRateData(params, selectedPlan, showPostgrad)

(***************************************************************************)
(* Vocabulary of the properties                                            *)
(***************************************************************************)
\* The thresholds the data model lists as the places where totalRate may
\* change, for a plan and a postgraduate flag (the taper end apart)
ListedThresholds(p, plan, pg) ==
  { p.personalAllowance, p.basicRateThreshold, p.higherRateThreshold,
    p.paTaperThreshold, p.niPrimaryThreshold, p.niUEL }
  \cup (IF plan # "none" THEN { planThresholdField(p, plan) } ELSE {})
  \cup (IF pg THEN { p.slPostgradThreshold } ELSE {})

\* The taper end, paTaperThreshold + personalAllowance / paTaperRate (the
\* income at which the tapered allowance reaches zero), lies in [i, i + 1]
TaperEndWithin(i, p) ==
  /\ p.paTaperRate > 0
  /\ (i - p.paTaperThreshold) * p.paTaperRate <= p.personalAllowance * Percent
  /\ p.personalAllowance * Percent <= (i + 1 - p.paTaperThreshold) * p.paTaperRate

\* The taper end lies at or below i
TaperEndedBy(i, p) ==
  /\ p.paTaperRate > 0
  /\ i >= p.paTaperThreshold
  /\ (i - p.paTaperThreshold) * p.paTaperRate >= p.personalAllowance * Percent

\* [i, i + 1] holds no listed threshold, end points included
NoThresholdWithin(i, p, plan, pg) ==
  /\ i \notin ListedThresholds(p, plan, pg)
  /\ (i + 1) \notin ListedThresholds(p, plan, pg)
  /\ ~ TaperEndWithin(i, p)

\* The bands of the record are in order, so that no band has negative width
WellOrdered(p) ==
  /\ p.personalAllowance <= p.basicRateThreshold
  /\ p.basicRateThreshold <= p.higherRateThreshold
  /\ p.niPrimaryThreshold <= p.niUEL

\* the results one income unit above the current query
deductionsAbove ==
  calculateDeductions(exampleSalary + 1, params, selectedPlan, showPostgrad)
marginalAbove ==
  calculateMarginalRate(exampleSalary + 1, params, selectedPlan, showPostgrad)

(***************************************************************************)
(* C1.  totalDeductions is the integral of totalRate: on every income      *)
(* interval [i, i + 1] that contains no listed threshold, the increase of  *)
(* totalDeductions equals totalRate on that interval (the rate at i + 1,   *)
(* one income unit wide), the taper window included.                       *)
(* Stated for the built-in record DEFAULT_PARAMS, one instance of "every   *)
(* parameter record".                                                      *)
(* Fails: inside the taper window calculateDeductions grows by             *)
(* rate * (1 + paTaperRate) while calculateMarginalRate reports            *)
(* higherRate + basicRate * paTaperRate.                                   *)
(***************************************************************************)
C1_DeductionsIntegrateRate ==
  (/\ params = DEFAULT_PARAMS
   /\ NoThresholdWithin(exampleSalary, params, selectedPlan, showPostgrad))
    => deductionsAbove.totalDeductions - withLoan.totalDeductions
         = marginalAbove.totalRate

(***************************************************************************)
(* C2.  With DEFAULT_PARAMS, incomeTaxRate at gross income 110,000 is      *)
(* 0.60 (6000 in units of 1/10000).                                        *)
(* Fails: the code returns higherRate + basicRate * paTaperRate = 0.50.    *)
(***************************************************************************)
C2_TaperRateSixty ==
  (params = DEFAULT_PARAMS /\ exampleSalary = 110000)
    => marginalWithLoan.incomeTaxRate = 6000

(***************************************************************************)
(* C3.  netIncome is continuous and non-decreasing in gross income, for    *)
(* every record that satisfies the parameter invariant (every record of    *)
(* the model does): netIncome(i) <= netIncome(i + 1).                      *)
(* Fails as stated: with rates that add up to more than 1, or with a band  *)
(* of negative width, netIncome falls.                                     *)
(***************************************************************************)
C3_NetIncomeNonDecreasing ==
  withLoan.netIncome <= deductionsAbove.netIncome

MaxOf3(a, b, c) == Max(a, Max(b, c))

\* The largest slope totalDeductions can have is at most 1: the largest
\* income-tax rate, raised by the taper, plus the larger National Insurance
\* rate, plus both loan rates
RatesWithinOne(p) ==
  (Percent + p.paTaperRate) * MaxOf3(p.basicRate, p.higherRate, p.additionalRate)
    + Percent * (Max(p.niMainRate, p.niHigherRate)
                 + p.slRepaymentRate + p.slPostgradRate)
    <= Unit

(***************************************************************************)
(* C3, amended.  For every record whose bands are in order                 *)
(* (personalAllowance <= basicRateThreshold <= higherRateThreshold,        *)
(* niPrimaryThreshold <= niUEL) and whose rates keep the slope of the      *)
(* deductions at or below 1 (RatesWithinOne), netIncome is non-decreasing  *)
(* and has no jump: over one income unit it rises by at least 0 and at     *)
(* most one unit.                                                          *)
(***************************************************************************)
C3_NetIncomeNonDecreasingAmended ==
  (WellOrdered(params) /\ RatesWithinOne(params))
    => /\ withLoan.netIncome <= deductionsAbove.netIncome
       /\ deductionsAbove.netIncome - withLoan.netIncome <= Unit

\* Witness of C3: inside the taper window, with both loans being repaid,
\* netIncome rises by less than the extra income
C3_Witness ==
  /\ WellOrdered(params) /\ RatesWithinOne(params)
  /\ exampleSalary > params.paTaperThreshold
  /\ exampleSalary < params.higherRateThreshold
  /\ withLoan.studentLoan > 0 /\ withLoan.postgradLoan > 0
  /\ withLoan.incomeTax > 0 /\ withLoan.ni > 0
  /\ deductionsAbove.netIncome > withLoan.netIncome
  /\ deductionsAbove.netIncome - withLoan.netIncome < Unit

(***************************************************************************)
(* C5.  Every component returned by calculateDeductions is >= 0, for       *)
(* every record that satisfies the parameter invariant.                    *)
(* Fails as stated: the invariant allows personalAllowance >               *)
(* basicRateThreshold and niPrimaryThreshold > niUEL, and a band of        *)
(* negative width yields a negative amount.                                *)
(***************************************************************************)
C5_ComponentsNonNegative ==
  /\ withLoan.incomeTax >= 0
  /\ withLoan.ni >= 0
  /\ withLoan.studentLoan >= 0
  /\ withLoan.postgradLoan >= 0

(***************************************************************************)
(* C5, amended.  For every record that satisfies the parameter invariant   *)
(* and has personalAllowance <= basicRateThreshold and niPrimaryThreshold  *)
(* <= niUEL, every component returned by calculateDeductions is >= 0.      *)
(***************************************************************************)
C5_ComponentsNonNegativeAmended ==
  WellOrdered(params) => C5_ComponentsNonNegative

\* Witness of C5: bands in order and all four components charged
C5_Witness ==
  /\ WellOrdered(params)
  /\ withLoan.incomeTax > 0 /\ withLoan.ni > 0
  /\ withLoan.studentLoan > 0 /\ withLoan.postgradLoan > 0

InTaperWindow(i, p) ==
  i > p.paTaperThreshold /\ i <= p.higherRateThreshold

C7_RateChangesOnlyAtListedPoints ==
  (/\ WellOrdered(params)
   /\ params.personalAllowance > 0
   /\ params.paTaperThreshold >= params.basicRateThreshold
   /\ params.paTaperThreshold < params.higherRateThreshold
   /\ params.paTaperRate > 0)
    => /\ NoThresholdWithin(exampleSalary, params, selectedPlan, showPostgrad)
            => marginalAbove.totalRate = marginalWithLoan.totalRate
       /\ TaperEndedBy(exampleSalary, params)
            => marginalAbove.incomeTaxRate
                 = bandedRate(exampleSalary + 1, params)
       /\ (/\ exampleSalary >= params.paTaperThreshold
           /\ ~ TaperEndedBy(exampleSalary, params)
           /\ ~ TaperEndWithin(exampleSalary, params))
            => marginalAbove.incomeTaxRate
                 = params.higherRate * Percent
                   + params.basicRate * params.paTaperRate

(***************************************************************************)
(* C8.  totalRate is right-continuous: at every threshold T (T >= 1, of a  *)
(* record whose bands are in order) the rate at T equals the rate for      *)
(* incomes just above T.                                                   *)
(* Fails as stated: the comparisons are "<=", so the rate at T is the      *)
(* rate of the band below T.                                               *)
(***************************************************************************)
C8_RightContinuous ==
  (/\ WellOrdered(params)
   /\ exampleSalary >= 1
   /\ exampleSalary \in ListedThresholds(params, selectedPlan, showPostgrad))
    => marginalWithLoan.totalRate = marginalAbove.totalRate

\* every threshold field of a record
AllThresholds(p) ==
  { p.personalAllowance, p.basicRateThreshold, p.higherRateThreshold,
    p.paTaperThreshold, p.niPrimaryThreshold, p.niUEL,
    p.slPlan1Threshold, p.slPlan2Threshold, p.slPlan4Threshold,
    p.slPlan5Threshold, p.slPostgradThreshold }

marginalBelow ==
  calculateMarginalRate(exampleSalary - 1, params, selectedPlan, showPostgrad)

(***************************************************************************)
(* C8, amended.  totalRate is a left-continuous step function: at every    *)
(* threshold T the rate at T equals the rate for incomes just below T      *)
(* (income exactly at a threshold belongs to the lower band), the step     *)
(* being taken just above T.  The income just below T is T - 1, where      *)
(* T - 1 is not itself a threshold.                                        *)
(***************************************************************************)
C8_LeftContinuous ==
  (/\ exampleSalary \in AllThresholds(params)
   /\ exampleSalary >= 1
   /\ (exampleSalary - 1) \notin AllThresholds(params))
    => marginalWithLoan.totalRate = marginalBelow.totalRate

\* Witness of C8: the query is at a threshold where the rate steps, and
\* the step is above the threshold, not below it
C8_Witness ==
  /\ exampleSalary \in ListedThresholds(params, selectedPlan, showPostgrad)
  /\ exampleSalary >= 1
  /\ (exampleSalary - 1) \notin AllThresholds(params)
  /\ marginalWithLoan.totalRate = marginalBelow.totalRate
  /\ marginalAbove.totalRate # marginalWithLoan.totalRate

C10_OwnPlanThreshold ==
  selectedPlan # "none"
    => LET T == planThresholdField(params, selectedPlan)
       IN  IF exampleSalary > T
           THEN /\ withLoan.studentLoan
                     = (exampleSalary - T) * params.slRepaymentRate * Percent
                /\ marginalWithLoan.studentLoanRate
                     = params.slRepaymentRate * Percent
           ELSE /\ withLoan.studentLoan = 0
                /\ marginalWithLoan.studentLoanRate = 0

(***************************************************************************)
(* C11.  Income exactly at a loan threshold is not charged: for every      *)
(* plan and for the postgraduate loan, at income = the loan's threshold    *)
(* the marginal rate and the amount are 0, and at threshold + 1 the rate   *)
(* is the flat repayment rate (Plan 2 of the built-in record: 0 at 29,385  *)
(* and 0.09 at 29,386).                                                    *)
(* Fails for a plan whose own threshold is 0: getPlanThreshold replaces it *)
(* by the Plan 2 threshold, so the rate at 0 + 1 is still 0.               *)
(***************************************************************************)
C11_ThresholdNotCharged ==
  /\ (selectedPlan # "none"
      /\ exampleSalary = planThresholdField(params, selectedPlan))
       => /\ marginalWithLoan.studentLoanRate = 0
          /\ withLoan.studentLoan = 0
          /\ marginalAbove.studentLoanRate = params.slRepaymentRate * Percent
  /\ (showPostgrad /\ exampleSalary = params.slPostgradThreshold)
       => /\ marginalWithLoan.postgradRate = 0
          /\ withLoan.postgradLoan = 0
          /\ marginalAbove.postgradRate = params.slPostgradRate * Percent

(***************************************************************************)
(* C12.  The components do not interact.  For one income and one record,   *)
(* over every plan and postgraduate flag: incomeTax, incomeTaxRate, ni and *)
(* niRate are the same; studentLoan and studentLoanRate depend on the plan *)
(* but not on the flag; postgradLoan and postgradRate depend on the flag   *)
(* but not on the plan; and the totals contain both loans in full (the     *)
(* undergraduate loan as computed without the postgraduate loan, the       *)
(* postgraduate loan as computed without a plan).                          *)
(* The state's own results (selectedPlan, showPostgrad) are compared with  *)
(* the results of every other plan and flag.                               *)
(***************************************************************************)
C12_ComponentsIndependent ==
  \A plan \in PLAN_OPTIONS, pg \in BOOLEAN :
    LET m == calculateMarginalRate(exampleSalary, params, plan, pg)
        d == calculateDeductions(exampleSalary, params, plan, pg)
    IN  /\ m.incomeTaxRate = marginalWithLoan.incomeTaxRate
        /\ m.niRate = marginalWithLoan.niRate
        /\ d.incomeTax = withLoan.incomeTax
        /\ d.ni = withLoan.ni
        /\ plan = selectedPlan
             => /\ m.studentLoanRate = marginalWithLoan.studentLoanRate
                /\ d.studentLoan = withLoan.studentLoan
        /\ pg = showPostgrad
             => /\ m.postgradRate = marginalWithLoan.postgradRate
                /\ d.postgradLoan = withLoan.postgradLoan
        /\ (plan = "none" /\ ~ pg)
             => /\ marginalWithLoan.totalRate
                     = m.totalRate + marginalWithLoan.studentLoanRate
                       + marginalWithLoan.postgradRate
                /\ withLoan.totalDeductions
                     = d.totalDeductions + withLoan.studentLoan
                       + withLoan.postgradLoan

\* Witness of C12: both loans are charged at the query, and another plan
\* gives another undergraduate loan rate and amount for the same income
C12_Witness ==
  /\ marginalWithLoan.studentLoanRate > 0 /\ marginalWithLoan.postgradRate > 0
  /\ withLoan.studentLoan > 0 /\ withLoan.postgradLoan > 0
  /\ \E plan \in PLAN_OPTIONS \ {"none", selectedPlan} :
       /\ slRate(exampleSalary, params, plan) = 0
       /\ studentLoan(exampleSalary, params, plan) # withLoan.studentLoan

(***************************************************************************)
(* C13.  When no plan is selected (plan = "none"), the undergraduate loan  *)
(* amount and the undergraduate loan marginal rate are 0, for every gross  *)
(* income, every parameter record and every value of the postgraduate      *)
(* flag.                                                                   *)
(***************************************************************************)
C13_NoPlanNoLoan ==
  selectedPlan = "none"
    => /\ withLoan.studentLoan = 0
       /\ marginalWithLoan.studentLoanRate = 0

\* Witness of C13: no plan selected, at an income above the threshold that
\* getPlanThreshold returns for "none" and with a repayment rate above 0,
\* while the postgraduate loan is charged
C13_Witness ==
  /\ selectedPlan = "none"
  /\ exampleSalary > getPlanThreshold(params, "none")
  /\ params.slRepaymentRate > 0
  /\ showPostgrad /\ withLoan.postgradLoan > 0
  /\ withLoan.studentLoan = 0 /\ marginalWithLoan.studentLoanRate = 0

(***************************************************************************)
(* The eligibility clock: write-off periods, cutoff ages and the two       *)
(* series that switch the loan off                                         *)
(***************************************************************************)
\* params.f || d, a field the record does not have being undefined
FieldOr(p, f, d) ==
  IF f \in DOMAIN p /\ p[f] # 0 THEN p[f] ELSE d

getPlanWriteoffYears(p, plan) ==
  LET writeoffs ==
        CASE plan = "plan1" -> FieldOr(p, "slPlan1Writeoff", 25)
          [] plan = "plan2" -> FieldOr(p, "slPlan2Writeoff", 30)
          [] plan = "plan4" -> FieldOr(p, "slPlan4Writeoff", 30)
          [] plan = "plan5" -> FieldOr(p, "slPlan5Writeoff", 40)
          [] OTHER          -> 0
  IN  IF writeoffs # 0 THEN writeoffs ELSE 30

PLAN_WRITEOFF_AGES ==
  [ plan1 |-> 47, plan2 |-> 52, plan4 |-> 52, plan5 |-> 62, none |-> 60 ]

loanCutoffAge ==
  LET looked == PLAN_WRITEOFF_AGES[selectedPlan]
  IN  IF looked # 0 THEN looked ELSE 52

PLAN_WRITEOFF_YEARS ==
  [ plan1 |-> 25, plan2 |-> 30, plan4 |-> 30, plan5 |-> 40, none |-> 0 ]

writeoffYears ==
  LET looked == PLAN_WRITEOFF_YEARS[selectedPlan]
  IN  IF looked # 0 THEN looked ELSE 30

yearsSinceGraduation == selectedYear - graduationYear

\* One row of either series: the rates of the plan and flag while the loan
\* is held, those of "none" and false afterwards (key is "age" or "year")
clockRow(key, value, hasLoan, salary, p, plan, hasPostgrad) ==
  LET rate == calculateMarginalRate(salary, p,
                                    IF hasLoan THEN plan ELSE "none",
                                    IF hasLoan THEN hasPostgrad ELSE FALSE)
  IN  [ hasLoan     |-> hasLoan,
        totalRate   |-> rate.totalRate * Percent,
        incomeTax   |-> rate.incomeTaxRate * Percent,
        ni          |-> rate.niRate * Percent,
        studentLoan |-> rate.studentLoanRate * Percent,
        postgrad    |-> rate.postgradRate * Percent ]
      @@ [ k \in {key} |-> value ]

FirstAge == 22
LastAge == 60

generateAgeData(salary, p, plan, hasPostgrad, cutoffAge) ==
  [ k \in 1 .. (LastAge - FirstAge + 1) |->
      LET a == FirstAge + k - 1
      IN  clockRow("age", a, a < cutoffAge, salary, p, plan, hasPostgrad) ]

YearsAfterWriteoff == 5

\* Mutant of generateRepaymentTimelineData: the loan is still held in the
\* write-off year itself (year <= W)
generateRepaymentTimelineDataInclusive(salary, p, plan, hasPostgrad, W) ==
  [ k \in 1 .. (W + YearsAfterWriteoff + 1) |->
      LET year == k - 1
      IN  clockRow("year", year, year <= W, salary, p, plan, hasPostgrad) ]

generateRepaymentTimelineData(salary, p, plan, hasPostgrad, W) ==
  [ k \in 1 .. (W + YearsAfterWriteoff + 1) |->
      LET year == k - 1
      IN  clockRow("year", year, year < W, salary, p, plan, hasPostgrad) ]

\* the two series of the current inputs (useMemo)
ageData ==
  generateAgeData(exampleSalary, params, selectedPlan, showPostgrad,
                  loanCutoffAge)
repaymentTimelineData ==
  generateRepaymentTimelineData(exampleSalary, params, selectedPlan,
                                showPostgrad, writeoffYears)


(***************************************************************************)
(* The calculator with its tax-year, age and graduation-year controls      *)
(***************************************************************************)
\* Mutant of lookupParams: once the table has loaded, a year the table
\* lacks gets the record of some year the table has, not the built-in one
lookupParamsAnyYear(table, year, loaded) ==
  IF ~ loaded \/ DOMAIN table = {} THEN DEFAULT_PARAMS
  ELSE IF year \in DOMAIN table THEN table[year]
  ELSE table[CHOOSE y \in DOMAIN table : TRUE]

\* params (useMemo): the record of the selected year, or the built-in one
lookupParams(table, year, loaded) ==
  IF ~ loaded THEN DEFAULT_PARAMS
  ELSE IF year \in DOMAIN table THEN table[year] ELSE DEFAULT_PARAMS

\* the tax years of the select control
TaxYears == { 2026, 2027, 2028, 2029, 2030 }

\* values typed into the age input (0: an entry parseInt does not read as a
\* number, for which the handler takes 22), and years picked in the
\* graduation-year select (2000 .. 2035)
AgeInputs == { 0, 47, 70 }
GraduationYears == { 2000, InitialGraduationYear }

setSelectedYear ==
  \E v \in TaxYears :
    /\ selectedYear' = v
    /\ params' = lookupParams(allParams, v, paramsLoaded)
    /\ UNCHANGED << exampleSalary, selectedPlan, showPostgrad,
                    loadVars, clockVars, tooltip >>
    /\ UNCHANGED variantVars
    /\ Derived(withLoan', marginalWithLoan',
               exampleSalary', params', selectedPlan', showPostgrad')

setAge ==
  \E v \in AgeInputs :
    /\ age' = Min(65, Max(18, IF v # 0 THEN v ELSE 22))
    /\ UNCHANGED << params, exampleSalary, selectedPlan, showPostgrad,
                    withLoan, marginalWithLoan, selectedYear, loadVars,
                    graduationYear, tooltip >>
    /\ UNCHANGED variantVars

setGraduationYear ==
  \E v \in GraduationYears :
    /\ graduationYear' = v
    /\ UNCHANGED << params, exampleSalary, selectedPlan, showPostgrad,
                    withLoan, marginalWithLoan, selectedYear, loadVars,
                    age, tooltip >>
    /\ UNCHANGED variantVars

\* Records as the parameter table supplies them, with write-off periods
WithWriteoffs(p, w) ==
  p @@ [ slPlan1Writeoff |-> w[1], slPlan2Writeoff |-> w[2],
         slPlan4Writeoff |-> w[3], slPlan5Writeoff |-> w[4] ]

ClockRecords ==
  { DEFAULT_PARAMS }
  \cup { WithWriteoffs(DEFAULT_PARAMS, w) :
           w \in { << 25, 30, 30, 40 >>, << 20, 25, 35, 30 >> } }

ClockInit == InitOver(ClockRecords)

ClockNext ==
  \/ setExampleSalary \/ setSelectedPlan \/ setShowPostgrad
  \/ setSelectedYear \/ setAge \/ setGraduationYear

ClockSpec == ClockInit /\ [][ClockNext]_vars


\* write-off periods the timeline is also generated for, besides the
\* selected plan's own
MaxWriteoff == 3

\* the rate fields of a series row are those of the result m
RowCarries(row, m) ==
  /\ row.totalRate = m.totalRate * Percent
  /\ row.incomeTax = m.incomeTaxRate * Percent
  /\ row.ni = m.niRate * Percent
  /\ row.studentLoan = m.studentLoanRate * Percent
  /\ row.postgrad = m.postgradRate * Percent

marginalWithoutLoan ==
  calculateMarginalRate(exampleSalary, params, "none", FALSE)

(***************************************************************************)
(* C14.  In the years-since-graduation series, for every salary, record,   *)
(* plan, postgraduate flag and write-off period W, the row for year y has  *)
(* the loan active iff y < W; every row with y >= W has the rate fields of *)
(* the result for plan "none" with postgraduate false (studentLoan =       *)
(* postgrad = 0), and every row with y < W carries the selected plan's     *)
(* rates.  For Plan 2, W = 30: year 29 is active, year 30 is not.          *)
(***************************************************************************)
C14_TimelineActiveBeforeWriteoff ==
  /\ \A W \in { writeoffYears } \cup (0 .. MaxWriteoff) :
       LET data == generateRepaymentTimelineData(exampleSalary, params,
                                                 selectedPlan, showPostgrad, W)
           none == marginalWithoutLoan
       IN  \A k \in DOMAIN data :
             LET row == data[k]
             IN  /\ row.year = k - 1
                 /\ row.hasLoan <=> (row.year < W)
                 /\ row.year >= W
                      => /\ RowCarries(row, none)
                         /\ row.studentLoan = 0 /\ row.postgrad = 0
                 /\ row.year < W => RowCarries(row, marginalWithLoan)
  /\ selectedPlan = "plan2"
       => /\ writeoffYears = 30
          /\ repaymentTimelineData[30].year = 29
          /\ repaymentTimelineData[30].hasLoan
          /\ repaymentTimelineData[31].year = 30
          /\ ~ repaymentTimelineData[31].hasLoan

\* Witness of C14: Plan 2 with the postgraduate loan, both charged at the
\* query: the row of year 29 carries them, the row of year 30 does not
C14_Witness ==
  /\ selectedPlan = "plan2" /\ showPostgrad
  /\ marginalWithLoan.studentLoanRate > 0 /\ marginalWithLoan.postgradRate > 0
  /\ repaymentTimelineData[30].studentLoan > 0
  /\ repaymentTimelineData[30].postgrad > 0
  /\ repaymentTimelineData[31].studentLoan = 0
  /\ repaymentTimelineData[31].totalRate < repaymentTimelineData[30].totalRate


(***************************************************************************)
(* C15.  In the age-based series the loan at age a (22 .. 60) is active    *)
(* iff a < cutoffAge, where for every plan and every loaded parameter      *)
(* record cutoffAge is the assumed graduation age (22) plus the plan's     *)
(* write-off period as getPlanWriteoffYears(params, plan) reports it       *)
(* (25/30/30/40 years by default, or the parameter table's value).         *)
(* Fails: the cutoff age is read from the fixed table PLAN_WRITEOFF_AGES,  *)
(* whatever write-off period the parameter record carries.                 *)
(***************************************************************************)
C15_CutoffAgeFromWriteoffYears ==
  selectedPlan # "none"
    => LET cutoffAge == FirstAge + getPlanWriteoffYears(params, selectedPlan)
           data == ageData
       IN  \A k \in DOMAIN data :
             LET row == data[k]
             IN  /\ row.age \in FirstAge .. LastAge
                 /\ row.hasLoan <=> (row.age < cutoffAge)


withoutLoan ==
  calculateDeductions(exampleSalary, params, "none", FALSE)

(***************************************************************************)
(* C16.  In every reachable state, whenever the eligibility clock makes    *)
(* the loan inactive for the user's own query (yearsSinceGraduation =      *)
(* selectedYear - graduationYear >= the selected plan's write-off years,   *)
(* or age >= the plan's cutoff age), every result produced for that query  *)
(* (the headline withLoan deductions and marginalWithLoan rates as well as *)
(* the series rows) equals the result for plan "none" with postgraduate    *)
(* false, whatever plan is selected.                                       *)
(* Fails: the headline results are computed for selectedPlan and           *)
(* showPostgrad without consulting the age or the years since graduation.  *)
(***************************************************************************)
C16_InactiveMeansNoLoan ==
  LET inactive == \/ yearsSinceGraduation >= writeoffYears
                  \/ age >= loanCutoffAge
  IN  inactive
        => /\ withLoan = withoutLoan
           /\ marginalWithLoan = marginalWithoutLoan
           /\ (yearsSinceGraduation >= writeoffYears
               /\ yearsSinceGraduation + 1 \in DOMAIN repaymentTimelineData)
                => RowCarries(repaymentTimelineData[yearsSinceGraduation + 1],
                              marginalWithoutLoan)
           /\ (age >= loanCutoffAge /\ age \in FirstAge .. LastAge)
                => RowCarries(ageData[age - FirstAge + 1],
                              marginalWithoutLoan)

(***************************************************************************)
(* The load of the parameter table (the effect run once at mount)          *)
(***************************************************************************)
\* Records as parseParamsRow builds them: the built-in values, and a table
\* with thresholds and write-off periods of its own
LoadRecords ==
  { parseParamsRow(rowOf(InitialYear, DEFAULT_PARAMS)),
    [ parseParamsRow(rowOf(InitialYear, DEFAULT_PARAMS))
        EXCEPT !.slPlan2Threshold = 28470, !.slPlan1Writeoff = 20,
               !.slPlan2Writeoff = 25 ] }

\* the columns in which the model's tables hold a text that is no numeral
TextColumns ==
  { "year", "sl_plan1_threshold", "sl_plan2_writeoff", "sl_plan2_interest_max" }

\* The tables the fetch may deliver: well-formed ones (no row, one year, two
\* years, one year twice), one whose header lacks a column, and tables with
\* one cell that is no numeral
LoadTables ==
  { << >> }
  \cup { << rowOf(InitialYear, r) >> : r \in LoadRecords }
  \cup { << rowOf(InitialYear, r), rowOf(InitialYear + 1, q) >> :
           r \in LoadRecords, q \in LoadRecords }
  \cup { << rowOf(InitialYear, r), rowOf(InitialYear, q) >> :
           r \in LoadRecords, q \in LoadRecords }
  \cup { << rowOf(InitialYear, DEFAULT_PARAMS) >> }
  \cup { << [ rowOf(InitialYear, r) EXCEPT ![c] = Text ] >> :
           r \in LoadRecords, c \in TextColumns }
  \cup { << [ rowOf(InitialYear, r) EXCEPT
                ![c] = NumberThenText(rowOf(InitialYear, r)[c].value) ] >> :
           r \in LoadRecords, c \in TextColumns }

\* .then(csvText => ...): the table is parsed and stored
loadResolved ==
  \E lines \in LoadTables :
    /\ ~ paramsLoaded
    /\ csvLines' = lines
    /\ allParams' = paramsMapOf(lines)
    /\ paramsLoaded' = TRUE
    /\ params' = lookupParams(allParams', selectedYear, paramsLoaded')
    /\ UNCHANGED << errorLogged, exampleSalary, selectedPlan, showPostgrad,
                    selectedYear, clockVars, tooltip >>
    /\ UNCHANGED variantVars
    /\ Derived(withLoan', marginalWithLoan',
               exampleSalary', params', selectedPlan', showPostgrad')

\* .catch(err => ...): the fetch failed
loadRejected ==
  /\ ~ paramsLoaded
  /\ errorLogged' = TRUE
  /\ allParams' = [ y \in {2026} |-> DEFAULT_PARAMS ]
  /\ paramsLoaded' = TRUE
  /\ params' = lookupParams(allParams', selectedYear, paramsLoaded')
  /\ UNCHANGED << csvLines, exampleSalary, selectedPlan, showPostgrad,
                  selectedYear, clockVars, tooltip >>
  /\ UNCHANGED variantVars
  /\ Derived(withLoan', marginalWithLoan',
             exampleSalary', params', selectedPlan', showPostgrad')

\* The calculator as constructed: no table yet
LoadInit ==
  /\ formIdle /\ apiIdle /\ chartIdle
  /\ csvLines = << >>
  /\ allParams = [ y \in {} |-> DEFAULT_PARAMS ]
  /\ paramsLoaded = FALSE
  /\ errorLogged = FALSE
  /\ selectedYear = InitialYear
  /\ params = lookupParams(allParams, selectedYear, paramsLoaded)
  /\ age = InitialAge
  /\ graduationYear = InitialGraduationYear
  /\ tooltip = << >>
  /\ exampleSalary = InitialSalary
  /\ selectedPlan = "plan2"
  /\ showPostgrad = FALSE
  /\ Derived(withLoan, marginalWithLoan,
             exampleSalary, params, selectedPlan, showPostgrad)

LoadNext ==
  \/ loadResolved \/ loadRejected
  \/ setSelectedYear \/ setSelectedPlan \/ setShowPostgrad

LoadSpec == LoadInit /\ [][LoadNext]_vars


\* the fields every parameter record has
ParamFields == DOMAIN DEFAULT_PARAMS

\* The record the loaded table holds for the selected year: that of the
\* last row of the fetched table whose year it is, or the built-in record
\* under 2026 when the fetch failed
LoadedRecordPresent ==
  /\ paramsLoaded
  /\ IF errorLogged THEN selectedYear = 2026
     ELSE \E i \in DOMAIN csvLines :
            parseInt(cellOf(csvLines[i], "year")) = selectedYear

LoadedRecord ==
  IF errorLogged THEN DEFAULT_PARAMS
  ELSE paramsMapOf(csvLines)[selectedYear]

C17_ParamsDefined ==
  /\ selectedYear \in TaxYears
  /\ ParamFields \subseteq DOMAIN params
  /\ LoadedRecordPresent => params = LoadedRecord
  /\ ~ LoadedRecordPresent => params = DEFAULT_PARAMS

(***************************************************************************)
(* C17.  The parameter lookup never fails: in every reachable state        *)
(* (before the parameter table has loaded, after a successful load, after  *)
(* a failed load) and for every selectable tax year, params is a fully     *)
(* defined record (it has every field of the parameter record), equal to   *)
(* the loaded record for that year when one is present and to the built-in *)
(* DEFAULT_PARAMS otherwise; and paramsLoaded, once true, never returns to *)
(* false.                                                                  *)
(***************************************************************************)
C17_LookupNeverFails ==
  /\ [] C17_ParamsDefined
  /\ [][paramsLoaded => paramsLoaded']_vars

\* Witness of C17: after a successful load of a table whose record for
\* 2026 is not the built-in one, a tax year the table lacks is selected
\* and params is the built-in record
C17_Witness ==
  /\ paramsLoaded /\ ~ errorLogged
  /\ InitialYear \in DOMAIN allParams
  /\ allParams[InitialYear].slPlan2Threshold # DEFAULT_PARAMS.slPlan2Threshold
  /\ selectedYear \notin DOMAIN allParams
  /\ params = DEFAULT_PARAMS


\* some cell of the fetched table is not a numeral
MalformedCell ==
  \E i \in DOMAIN csvLines :
    \E c \in DOMAIN csvLines[i] : csvLines[i][c].kind # "number"

\* some cell of the fetched table does not even start with a numeral, in a
\* column parseParamsRow reads with a default
DefaultedCell ==
  \E i \in DOMAIN csvLines :
    \E c \in { "sl_plan2_writeoff", "sl_plan2_interest_max" } :
      c \in DOMAIN csvLines[i] /\ csvLines[i][c].kind = "text"

HoldsNaN(record) ==
  \E f \in DOMAIN record : record[f] = NaN

(***************************************************************************)
(* C18.  A non-numeric field in a row of the parameter table is surfaced   *)
(* as an error when the table is loaded: it never ends up inside a         *)
(* parameter record used for evaluation as a non-number, and it is never   *)
(* silently replaced by a default value.                                   *)
(* Fails: parseParamsRow stores what parseFloat returns (NaN for a text    *)
(* that is no numeral), reads write-off periods and interest rates with    *)
(* "|| default", and the load reports nothing.                             *)
(***************************************************************************)
C18_MalformedValueSurfaced ==
  paramsLoaded
    => /\ MalformedCell => errorLogged
       /\ ~ HoldsNaN(params)
       /\ \A y \in DOMAIN allParams : y # NaN /\ ~ HoldsNaN(allParams[y])
       /\ DefaultedCell => errorLogged


(***************************************************************************)
(* The tooltip of the marginal-rate chart: the point lookup on mousemove   *)
(***************************************************************************)
\* d3.bisector(d => d.income).left(data, x, lo, hi): binary search for the
\* first index in lo .. hi (counted from 0) whose income is >= x
RECURSIVE bisectLeft(_, _, _, _)
bisectLeft(data, x, lo, hi) ==
  IF lo < hi
  THEN LET mid == (lo + hi) \div 2
       IN  IF data[mid + 1].income < x
           THEN bisectLeft(data, x, mid + 1, hi)
           ELSE bisectLeft(data, x, lo, mid)
  ELSE lo

\* Mutant of pointLookup: the index is not capped by the last index
pointLookupUncapped(data, length, income) ==
  LET i == bisectLeft(data, income, 1, length)
  IN  IF i + 1 \in DOMAIN data THEN << data[i + 1] >> ELSE << >>

\* d = data[Math.min(i, data.length - 1)], i = bisect(data, income, 1):
\* << d >>, or << >> where the index has no element (undefined)
pointLookup(data, length, income) ==
  LET i == bisectLeft(data, income, 1, length)
      index == Min(i, length - 1)
  IN  IF index + 1 \in DOMAIN data THEN << data[index + 1] >> ELSE << >>

\* marginalRateData.length: one row per step of the sampled domain
marginalRateLength == (SeriesMaxIncome \div SeriesStep) + 1

\* incomes under the pointer (x.invert(mx)): below, inside and above the
\* domain of the scale, on samples and between them
HoverIncomes ==
  { -500, 0, 200, 500, 60000, 60200, 60500, 149900,
    SeriesMaxIncome, SeriesMaxIncome + 300 }

\* mousemove: the point is looked up and shown at the pointer; where the
\* lookup gives no element, reading d.postgrad throws and nothing changes
mousemove ==
  LET data == marginalRateData
  IN  \E income \in HoverIncomes :
        LET found == pointLookup(data, marginalRateLength, income)
        IN  /\ paramsLoaded
            /\ tooltip' = IF found = << >> THEN tooltip
                          ELSE << [ income |-> income, d |-> found[1] ] >>
            /\ UNCHANGED << params, exampleSalary, selectedPlan, showPostgrad,
                            withLoan, marginalWithLoan, selectedYear,
                            loadVars, clockVars >>
            /\ UNCHANGED variantVars

\* mouseout: the tooltip is hidden
mouseout ==
  /\ paramsLoaded
  /\ tooltip' = << >>
  /\ UNCHANGED << params, exampleSalary, selectedPlan, showPostgrad,
                  withLoan, marginalWithLoan, selectedYear, loadVars,
                  clockVars >>
  /\ UNCHANGED variantVars

TooltipInit == InitOver(SeriesRecords)

TooltipNext ==
  mousemove \/ mouseout \/ setSelectedPlan \/ setShowPostgrad

TooltipSpec == TooltipInit /\ [][TooltipNext]_vars


(***************************************************************************)
(* C19.  The tooltip point lookup over the sampled income series never     *)
(* returns nothing: for every query income (below, inside or above the     *)
(* sampled domain 0 .. 150,000) the returned point is a defined element of *)
(* the series, and for every query above the domain's upper bound it is    *)
(* the last point.  Stated of the lookup on the current series for every   *)
(* query income, and of the point the tooltip shows.                       *)
(***************************************************************************)
C19_LookupReturnsPoint ==
  /\ LET data == marginalRateData
     IN  \A income \in HoverIncomes :
           LET found == pointLookup(data, marginalRateLength, income)
           IN  /\ found # << >>
               /\ \E k \in 1 .. marginalRateLength :
                    /\ (k - 1) * SeriesStep = found[1].income
                    /\ found[1] = data[k]
               /\ income > SeriesMaxIncome
                    => found[1] = data[marginalRateLength]
  /\ (tooltip # << >> /\ tooltip[1].income > SeriesMaxIncome)
       => tooltip[1].d.income = SeriesMaxIncome

\* Witness of C19: the pointer is above the upper bound of the domain and
\* the tooltip shows the last point of the series
C19_Witness ==
  /\ tooltip # << >>
  /\ tooltip[1].income > SeriesMaxIncome
  /\ tooltip[1].d = marginalRateData[marginalRateLength]
  /\ tooltip[1].d.income = SeriesMaxIncome


\* |a - b|
Distance(a, b) == IF a >= b THEN a - b ELSE b - a

(***************************************************************************)
(* C20.  For the sampled income domain 0 .. 150,000 in steps of 500, the   *)
(* point lookup returns, for every query income in the domain, the closest *)
(* available sample (no other sample is nearer to the query); querying     *)
(* 60,200 returns the point for income 60,500.                             *)
(* Fails: the lookup returns the first sample at or above the query, from  *)
(* the second sample on: 60,200 gets 60,500 although 60,000 is nearer, and *)
(* 0 gets 500 although 0 is a sample.                                      *)
(***************************************************************************)
C20_LookupReturnsClosest ==
  (tooltip # << >> /\ tooltip[1].income \in 0 .. SeriesMaxIncome)
    => /\ \A k \in 1 .. marginalRateLength :
            Distance((k - 1) * SeriesStep, tooltip[1].income)
              >= Distance(tooltip[1].d.income, tooltip[1].income)
       /\ tooltip[1].income = 60200 => tooltip[1].d.income = 60500


(***************************************************************************)
(* C21.  With the default parameters, Plan 2 active and no postgraduate    *)
(* loan, calculateMarginalRate at gross income 60,000 returns              *)
(* incomeTaxRate = 0.40, niRate = 0.02, studentLoanRate = 0.09 and         *)
(* totalRate = 0.51 (rates in 1/10000).                                    *)
(***************************************************************************)
C21_CompositeScenario ==
  (params = DEFAULT_PARAMS /\ exampleSalary = 60000
   /\ selectedPlan = "plan2" /\ ~ showPostgrad)
    => /\ marginalWithLoan.incomeTaxRate = 4000
       /\ marginalWithLoan.niRate = 200
       /\ marginalWithLoan.studentLoanRate = 900
       /\ marginalWithLoan.postgradRate = 0
       /\ marginalWithLoan.totalRate = 5100

\* Witness of C21: the scenario itself, the income entered by the user
C21_Witness ==
  /\ params = DEFAULT_PARAMS /\ exampleSalary = 60000
  /\ selectedPlan = "plan2" /\ ~ showPostgrad
  /\ marginalWithLoan.grossIncome = 60000
  /\ marginalWithLoan.totalRate = 5100


(***************************************************************************)
(* C22.  At gross income 0, for every parameter record satisfying the      *)
(* parameter invariant, every plan and postgraduate flag, all deduction    *)
(* components, all rate components, totalDeductions and totalRate are 0    *)
(* and netIncome = 0.                                                      *)
(***************************************************************************)
C22_ZeroIncome ==
  exampleSalary = 0
    => /\ withLoan.grossIncome = 0 /\ marginalWithLoan.grossIncome = 0
       /\ withLoan.incomeTax = 0 /\ withLoan.ni = 0
       /\ withLoan.studentLoan = 0 /\ withLoan.postgradLoan = 0
       /\ withLoan.totalDeductions = 0 /\ withLoan.netIncome = 0
       /\ marginalWithLoan.incomeTaxRate = 0 /\ marginalWithLoan.niRate = 0
       /\ marginalWithLoan.studentLoanRate = 0
       /\ marginalWithLoan.postgradRate = 0
       /\ marginalWithLoan.totalRate = 0

\* Witness of C22: income 0 with both loans selected and a threshold at 0,
\* the placing where a comparison with the threshold decides the result
C22_Witness ==
  /\ exampleSalary = 0 /\ selectedPlan # "none" /\ showPostgrad
  /\ \/ params.slPostgradThreshold = 0
     \/ params.personalAllowance = 0
     \/ params.niPrimaryThreshold = 0
     \/ getPlanThreshold(params, selectedPlan) = 0
  /\ withLoan.grossIncome = 0 /\ withLoan.totalDeductions = 0


hasLoan == selectedPlan # "none"

(***************************************************************************)
(* C29.  In every reachable state the loan status used for the headline    *)
(* figures agrees with the hasLoan flag of the generateAgeData row for the *)
(* user's age (22..60), and a row's hasLoan is true only when a plan other *)
(* than "none" is being applied in that row.                               *)
(* Fails: the headline tests the plan only and the rows test the age only  *)
(* (age < loanCutoffAge, 60 for "none"), so with "none" selected the rows  *)
(* below 60 are flagged though no loan is applied, and with a plan         *)
(* selected the rows from the cutoff age on are not flagged though the     *)
(* headline is.                                                            *)
(***************************************************************************)
C29_HeadlineAgreesWithRows ==
  /\ age \in FirstAge .. LastAge
       => ageData[age - FirstAge + 1].hasLoan = hasLoan
  /\ \A k \in 1 .. (LastAge - FirstAge + 1) :
       ageData[k].hasLoan => selectedPlan # "none"


(***************************************************************************)
(* The variant with a Calculate button.  The form writes inputs; the       *)
(* results are derived from calculatedInputs, which only the button        *)
(* writes.  This variant knows Plan 2 only and has no postgraduate loan:   *)
(* its calculateDeductions(salary, params, true) is the calculation for    *)
(* "plan2" without the postgraduate flag.                                  *)
(***************************************************************************)
FormSalaries == { 0, InitialSalary, 60000 }
FormAges == { 22, 35, 60 }
FormYears == { InitialYear, 2027 }

FormValues(id) ==
  IF id = "salary" THEN FormSalaries
  ELSE IF id = "age" THEN FormAges
  ELSE FormYears

\* the results as the variant derives them from calculatedInputs c
FormDerived(p, wl, mwl, c) ==
  /\ p = lookupParams(allParams, c.year, paramsLoaded)
  /\ Derived(wl, mwl, c.salary, p, "plan2", FALSE)

\* Mutant of handleInputChange: the edit is taken over at once
handleInputChangeLive ==
  \E id \in { "salary", "age", "year" } :
    \E value \in FormValues(id) :
      /\ inputs' = [ inputs EXCEPT ![id] = parseFloat(Number(value)) ]
      /\ calculatedInputs' = inputs'
      /\ UNCHANGED hasCalculated
      /\ FormDerived(params', withLoan', marginalWithLoan', calculatedInputs')
      /\ UNCHANGED << exampleSalary, selectedPlan, showPostgrad, selectedYear,
                      loadVars, clockVars, tooltip >>
      /\ UNCHANGED << apiVars, completeMtrVars, chartVars >>

handleInputChange ==
  \E id \in { "salary", "age", "year" } :
    \E value \in FormValues(id) :
      /\ inputs' = [ inputs EXCEPT ![id] = parseFloat(Number(value)) ]
      /\ UNCHANGED << calculatedInputs, hasCalculated >>
      /\ FormDerived(params', withLoan', marginalWithLoan', calculatedInputs')
      /\ UNCHANGED << exampleSalary, selectedPlan, showPostgrad, selectedYear,
                      loadVars, clockVars, tooltip >>
      /\ UNCHANGED << apiVars, completeMtrVars, chartVars >>

handleCalculate ==
  /\ calculatedInputs' = inputs
  /\ hasCalculated' = TRUE
  /\ UNCHANGED inputs
  /\ FormDerived(params', withLoan', marginalWithLoan', calculatedInputs')
  /\ UNCHANGED << exampleSalary, selectedPlan, showPostgrad, selectedYear,
                  loadVars, clockVars, tooltip >>
  /\ UNCHANGED << apiVars, completeMtrVars, chartVars >>

FormInit == InitOver(SeriesRecords)
FormNext == handleInputChange \/ handleCalculate
FormSpec == FormInit /\ [][FormNext]_vars

\* what the variant displays
formResults == << params, withLoan, marginalWithLoan >>

(***************************************************************************)
(* C28.  In the Calculate-button variant an input edit changes only        *)
(* inputs: calculatedInputs, hasCalculated, params and every displayed     *)
(* result stay as they are until Calculate is clicked; the click sets      *)
(* calculatedInputs to the inputs current at the click and hasCalculated   *)
(* to true; hasCalculated never returns to false.  Every step is either    *)
(* such a click or leaves all of these unchanged.                          *)
(***************************************************************************)
C28_OnlyCalculateCommits ==
  [][ /\ \/ /\ calculatedInputs' = inputs
            /\ hasCalculated'
            /\ inputs' = inputs
         \/ UNCHANGED << calculatedInputs, hasCalculated, formResults >>
      /\ hasCalculated => hasCalculated'
      /\ FormDerived(params', withLoan', marginalWithLoan', calculatedInputs')
    ]_vars

\* Witness of C28: after a click that took over edited inputs, the form has
\* been edited again and the results are still those of the click
C28_Witness ==
  /\ hasCalculated
  /\ calculatedInputs # InitialInputs
  /\ inputs.salary # calculatedInputs.salary
  /\ inputs.year # calculatedInputs.year
  /\ withLoan.grossIncome = calculatedInputs.salary


(***************************************************************************)
(* The variant with requests to the API.  Two debounced requests,          *)
(* /calculate (fetchApiData, 300 ms) and /complete-mtr                     *)
(* (fetchCompleteMtrData, 500 ms), are sent with the inputs their callback *)
(* closed over; a response is identified with the inputs of its request.   *)
(* Time passes in ticks.  loanAmount, salaryGrowthRate and the household   *)
(* inputs are not changed here and are left out of the request.            *)
(***************************************************************************)
ApiDelay == 300
CompleteMtrDelay == 500
TickMs == 100
\* requests awaiting a response, both kinds together
MaxInFlight == 2

requestInputs(salary, plan, year, hasPostgrad) ==
  [ starting_salary |-> salary, plan |-> plan, year |-> year,
    has_postgrad |-> hasPostgrad ]

currentInputs ==
  requestInputs(exampleSalary, selectedPlan, selectedYear, showPostgrad)

\* Mutant of debounce: the effect has no cleanup
debounceNoCleanup(timers, previous, current, delay) ==
  timers \cup { [ due |-> delay, body |-> current ] }

\* The debounce effect, run again because its callback changed: the cleanup
\* of the previous run clears the timer that run had set, then a timer is
\* set for the new callback
debounce(timers, previous, current, delay) ==
  { t \in timers : t.body # previous }
    \cup { [ due |-> delay, body |-> current ] }

Elapse(timers) ==
  { [ t EXCEPT !.due = Max(0, t.due - TickMs) ] : t \in timers }

RemoveAt(queue, i) ==
  [ k \in 1 .. Len(queue) - 1 |-> IF k < i THEN queue[k] ELSE queue[k + 1] ]

ErrorMessages == { "Failed to fetch", "API error: 500" }

\* the plans selected in this view: no plan, and two plans to tell the
\* responses apart
ApiPlans == { "none", "plan1", "plan2" }

\* lifetimeData (useMemo): the rows of apiData, none without a plan
lifetimeDataOf(data, plan) ==
  IF plan = "none" \/ data = << >> THEN << >> ELSE data

lifetimeData == lifetimeDataOf(apiData, selectedPlan)

\* The chart container is rendered inside {hasLoan && ..} and
\* {apiLoading ? .. : ..}
chartMounted(plan, loading) == plan # "none" /\ ~ loading

(***************************************************************************)
(* The effect of the lifetime chart after a render.  ran: a dependency of  *)
(* the effect changed; wasMounted, mounted: the container before and after *)
(* the render (a container that is unmounted loses its content, and a      *)
(* fade-out running in it goes on detached).                               *)
(***************************************************************************)
lifetimeChartEffect(ran, wasMounted, mounted, mode, data) ==
  LET kept == wasMounted /\ mounted
      container == IF kept THEN lifetimeChart ELSE << >>
      running == IF fadeOut # << >> /\ ~ kept
                 THEN << [ fadeOut[1] EXCEPT !.attached = FALSE ] >>
                 ELSE fadeOut
      isViewModeChange == prevLifetimeViewMode # mode
      drawn == << [ mode |-> mode, data |-> data ] >>
  IN  IF ~ ran \/ ~ mounted \/ ~ paramsLoaded \/ data = << >>
      THEN /\ lifetimeChart' = container
           /\ fadeOut' = running
           /\ UNCHANGED << prevLifetimeViewMode, isAnimating >>
      ELSE IF isViewModeChange /\ ~ isAnimating
      THEN IF container # << >>
           THEN /\ isAnimating' = TRUE
                /\ fadeOut' = << [ mode |-> mode, data |-> data,
                                   attached |-> TRUE ] >>
                /\ lifetimeChart' = container
                /\ UNCHANGED prevLifetimeViewMode
           ELSE /\ lifetimeChart' = drawn
                /\ prevLifetimeViewMode' = mode
                /\ isAnimating' = FALSE
                /\ fadeOut' = running
      ELSE IF ~ isAnimating
      THEN /\ lifetimeChart' = drawn
           /\ prevLifetimeViewMode' = mode
           /\ fadeOut' = running
           /\ UNCHANGED isAnimating
      ELSE /\ lifetimeChart' = container
           /\ fadeOut' = running
           /\ UNCHANGED << prevLifetimeViewMode, isAnimating >>

\* the inputs this view leaves alone
apiFrame ==
  UNCHANGED << params, exampleSalary, showPostgrad, selectedYear,
               loadVars, clockVars, tooltip, formVars >>

\* The plan select, and the effects of the render that follows: both
\* debounce effects and the chart effect
setSelectedPlanDebounced ==
  \E v \in ApiPlans \ { selectedPlan } :
    /\ selectedPlan' = v
    /\ apiFrame
    /\ Derived(withLoan', marginalWithLoan',
               exampleSalary', params', selectedPlan', showPostgrad')
    /\ LET current == requestInputs(exampleSalary, v, selectedYear,
                                    showPostgrad)
       IN  /\ apiTimers' = debounce(apiTimers, currentInputs, current,
                                    ApiDelay)
           /\ completeMtrTimers' = debounce(completeMtrTimers, currentInputs,
                                            current, CompleteMtrDelay)
    /\ UNCHANGED << apiInFlight, apiData, apiLoading, apiError,
                    completeMtrInFlight, completeMtrData, completeMtrLoading,
                    completeMtrError, lifetimeViewMode >>
    /\ lifetimeChartEffect(TRUE, chartMounted(selectedPlan, apiLoading),
                           chartMounted(v, apiLoading), lifetimeViewMode,
                           lifetimeDataOf(apiData, v))

\* 100 ms pass
tick ==
  /\ \E t \in apiTimers \cup completeMtrTimers : t.due > 0
  /\ apiTimers' = Elapse(apiTimers)
  /\ completeMtrTimers' = Elapse(completeMtrTimers)
  /\ apiFrame
  /\ UNCHANGED << selectedPlan, withLoan, marginalWithLoan,
                  apiInFlight, apiData, apiLoading, apiError,
                  completeMtrInFlight, completeMtrData, completeMtrLoading,
                  completeMtrError, chartVars >>

inFlight == Len(apiInFlight) + Len(completeMtrInFlight)

\* A /calculate timer runs fetchApiData up to its await
apiTimerFires ==
  \E t \in apiTimers :
    /\ t.due = 0
    /\ apiTimers' = apiTimers \ { t }
    /\ IF t.body.plan = "none"
       THEN /\ apiData' = << >>
            /\ UNCHANGED << apiInFlight, apiLoading, apiError >>
       ELSE /\ inFlight < MaxInFlight
            /\ apiLoading' = TRUE
            /\ apiError' = << >>
            /\ apiInFlight' = Append(apiInFlight, t.body)
            /\ UNCHANGED apiData
    /\ apiFrame
    /\ UNCHANGED << selectedPlan, withLoan, marginalWithLoan,
                    completeMtrVars, lifetimeViewMode >>
    /\ lifetimeChartEffect(apiData' # apiData,
                           chartMounted(selectedPlan, apiLoading),
                           chartMounted(selectedPlan, apiLoading'),
                           lifetimeViewMode,
                           lifetimeDataOf(apiData', selectedPlan))

\* The response of a /calculate request arrives, in any order
fetchApiDataResolved ==
  \E i \in DOMAIN apiInFlight :
    /\ apiData' = << apiInFlight[i] >>
    /\ apiLoading' = FALSE
    /\ apiInFlight' = RemoveAt(apiInFlight, i)
    /\ apiFrame
    /\ UNCHANGED << selectedPlan, withLoan, marginalWithLoan, apiTimers,
                    apiError, completeMtrVars, lifetimeViewMode >>
    /\ lifetimeChartEffect(TRUE, chartMounted(selectedPlan, apiLoading),
                           chartMounted(selectedPlan, FALSE),
                           lifetimeViewMode,
                           lifetimeDataOf(apiData', selectedPlan))

\* A /calculate request fails: network error or non-OK status
fetchApiDataRejected ==
  \E i \in DOMAIN apiInFlight, message \in ErrorMessages :
    /\ apiError' = << message >>
    /\ apiLoading' = FALSE
    /\ apiInFlight' = RemoveAt(apiInFlight, i)
    /\ apiFrame
    /\ UNCHANGED << selectedPlan, withLoan, marginalWithLoan, apiTimers,
                    apiData, completeMtrVars, lifetimeViewMode >>
    /\ lifetimeChartEffect(FALSE, chartMounted(selectedPlan, apiLoading),
                           chartMounted(selectedPlan, FALSE),
                           lifetimeViewMode, lifetimeData)

\* A /complete-mtr timer runs fetchCompleteMtrData up to its await
completeMtrTimerFires ==
  \E t \in completeMtrTimers :
    /\ t.due = 0
    /\ inFlight < MaxInFlight
    /\ completeMtrTimers' = completeMtrTimers \ { t }
    /\ completeMtrLoading' = TRUE
    /\ completeMtrError' = << >>
    /\ completeMtrInFlight' = Append(completeMtrInFlight, t.body)
    /\ apiFrame
    /\ UNCHANGED << selectedPlan, withLoan, marginalWithLoan,
                    completeMtrData, apiVars, chartVars >>

fetchCompleteMtrDataResolved ==
  \E i \in DOMAIN completeMtrInFlight :
    /\ completeMtrData' = << completeMtrInFlight[i] >>
    /\ completeMtrLoading' = FALSE
    /\ completeMtrInFlight' = RemoveAt(completeMtrInFlight, i)
    /\ apiFrame
    /\ UNCHANGED << selectedPlan, withLoan, marginalWithLoan,
                    completeMtrTimers, completeMtrError, apiVars, chartVars >>

fetchCompleteMtrDataRejected ==
  \E i \in DOMAIN completeMtrInFlight, message \in ErrorMessages :
    /\ completeMtrError' = << message >>
    /\ completeMtrLoading' = FALSE
    /\ completeMtrInFlight' = RemoveAt(completeMtrInFlight, i)
    /\ apiFrame
    /\ UNCHANGED << selectedPlan, withLoan, marginalWithLoan,
                    completeMtrTimers, completeMtrData, apiVars, chartVars >>

\* The component after mount: both debounce effects have set their timer
ApiInit ==
  /\ InputsInit({ DEFAULT_PARAMS })
  /\ formIdle /\ chartIdle
  /\ apiTimers = { [ due |-> ApiDelay, body |-> currentInputs ] }
  /\ completeMtrTimers = { [ due |-> CompleteMtrDelay,
                             body |-> currentInputs ] }
  /\ apiInFlight = << >> /\ apiData = << >>
  /\ apiLoading = FALSE /\ apiError = << >>
  /\ completeMtrInFlight = << >> /\ completeMtrData = << >>
  /\ completeMtrLoading = FALSE /\ completeMtrError = << >>

ApiNext ==
  \/ setSelectedPlanDebounced \/ tick
  \/ apiTimerFires \/ fetchApiDataResolved \/ fetchApiDataRejected
  \/ completeMtrTimerFires
  \/ fetchCompleteMtrDataResolved \/ fetchCompleteMtrDataRejected

ApiSpec == ApiInit /\ [][ApiNext]_vars


(***************************************************************************)
(* The lifetime chart: the view-mode toggle and the end of a fade-out.     *)
(***************************************************************************)
LifetimeViewModes == { "cumulative", "annual" }

\* A toggle button (rendered with the chart), and the chart effect of the
\* render that follows
setLifetimeViewMode ==
  \E v \in LifetimeViewModes \ { lifetimeViewMode } :
    /\ chartMounted(selectedPlan, apiLoading)
    /\ lifetimeViewMode' = v
    /\ apiFrame
    /\ UNCHANGED << selectedPlan, withLoan, marginalWithLoan,
                    apiVars, completeMtrVars >>
    /\ lifetimeChartEffect(TRUE, TRUE, TRUE, v, lifetimeData)

\* .on("end", ..) of the fade-out: renderChart of the effect run that
\* started it, into the container that run saw
lifetimeFadeOutEnd ==
  /\ fadeOut # << >>
  /\ LET t == fadeOut[1]
     IN  /\ lifetimeChart' = IF t.attached
                             THEN << [ mode |-> t.mode, data |-> t.data ] >>
                             ELSE lifetimeChart
         /\ prevLifetimeViewMode' = t.mode
  /\ isAnimating' = FALSE
  /\ fadeOut' = << >>
  /\ apiFrame
  /\ UNCHANGED << selectedPlan, withLoan, marginalWithLoan,
                  apiVars, completeMtrVars, lifetimeViewMode >>

ChartInit == ApiInit
ChartNext == ApiNext \/ setLifetimeViewMode \/ lifetimeFadeOutEnd

\* A transition that has started ends: d3's timer runs it to its end
ChartSpec ==
  ChartInit /\ [][ChartNext]_vars /\ WF_vars(lifetimeFadeOutEnd)


(***************************************************************************)
(* C27.  For any sequence of view-mode toggles and lifetime-data updates,  *)
(* including ones that arrive while a fade-out is running: once no         *)
(* transition is running, the rendered lifetime chart shows the current    *)
(* lifetimeViewMode and the current lifetimeData, and                      *)
(* prevLifetimeViewMode equals lifetimeViewMode.                           *)
(* Fails: an effect run that finds isAnimating set does nothing, and the   *)
(* end of the fade-out renders the mode and data its own run closed over.  *)
(* (The other half of the claim, that isAnimating returns to false, rests  *)
(* on the fade-out reaching its end, which ChartSpec states as fairness.)  *)
(***************************************************************************)
C27_ChartSettles ==
  (~ isAnimating /\ chartMounted(selectedPlan, apiLoading)
   /\ lifetimeData # << >>)
    => /\ lifetimeChart = << [ mode |-> lifetimeViewMode,
                               data |-> lifetimeData ] >>
       /\ prevLifetimeViewMode = lifetimeViewMode


(***************************************************************************)
(* C23.  Once every issued /calculate request has settled (without an      *)
(* error) and no debounce timer is pending, apiData holds the response of  *)
(* the request sent with the current inputs, and null when the plan is     *)
(* "none"; likewise completeMtrData for the /complete-mtr request.  A      *)
(* response to an earlier request never ends up as the displayed data.     *)
(* Fails: every response is stored when it arrives, whatever has been sent *)
(* since, so of two overlapping requests the one answered last wins.       *)
(***************************************************************************)
C23_LatestResponseWins ==
  /\ (apiInFlight = << >> /\ apiTimers = {} /\ apiError = << >>)
       => apiData = IF selectedPlan = "none" THEN << >>
                    ELSE << currentInputs >>
  /\ (completeMtrInFlight = << >> /\ completeMtrTimers = {}
      /\ completeMtrError = << >>)
       => completeMtrData = << currentInputs >>

(***************************************************************************)
(* C24.  apiLoading is true in every state in which at least one           *)
(* /calculate request is in flight and false in every state in which none  *)
(* is; likewise completeMtrLoading.                                        *)
(* Fails: the first response of two overlapping requests sets the flag to  *)
(* false while the other request is still in flight.                       *)
(***************************************************************************)
C24_LoadingIffInFlight ==
  /\ apiLoading <=> (Len(apiInFlight) > 0)
  /\ completeMtrLoading <=> (Len(completeMtrInFlight) > 0)

(***************************************************************************)
(* C25.  A failed /calculate request leaves apiError set to its message    *)
(* with apiData as it was; and whenever apiError is not null, apiData is   *)
(* not the response for the current inputs.                                *)
(* Fails in its second half: apiError is cleared only when the next        *)
(* request is sent, and the failure of an earlier request is recorded      *)
(* after the response of a later one.  (The first half is what             *)
(* fetchApiDataRejected does.)                                             *)
(***************************************************************************)
C25_ErrorMeansNoCurrentData ==
  apiError # << >> => apiData # << currentInputs >>


(***************************************************************************)
(* Vocabulary of C26.  A step is a change when the inputs of the callbacks *)
(* change; a timer fires when the pending timer goes and none is set.      *)
(***************************************************************************)
FreshTimer(delay) == { [ due |-> delay, body |-> currentInputs' ] }

\* at most one timer of each kind; a change sends nothing and leaves
\* exactly the timer it has just set; a request is sent only by a timer
\* whose delay has fully elapsed
DebounceSteps ==
  /\ Cardinality(apiTimers') <= 1
  /\ Cardinality(completeMtrTimers') <= 1
  /\ currentInputs' # currentInputs
       => /\ apiTimers' = FreshTimer(ApiDelay)
          /\ completeMtrTimers' = FreshTimer(CompleteMtrDelay)
          /\ apiInFlight' = apiInFlight
          /\ completeMtrInFlight' = completeMtrInFlight
  /\ apiInFlight' # apiInFlight /\ Len(apiInFlight') >= Len(apiInFlight)
       => \E t \in apiTimers : t.due = 0 /\ apiTimers' = apiTimers \ { t }
  /\ completeMtrInFlight' # completeMtrInFlight
     /\ Len(completeMtrInFlight') >= Len(completeMtrInFlight)
       => \E t \in completeMtrTimers :
            t.due = 0 /\ completeMtrTimers' = completeMtrTimers \ { t }
  /\ (completeMtrTimers # {} /\ completeMtrTimers' = {})
       => completeMtrInFlight' = Append(completeMtrInFlight, currentInputs)

apiTimerFired == apiTimers # {} /\ apiTimers' = {}

(***************************************************************************)
(* C26.  Request debouncing: every change to an input cancels the pending  *)
(* timer and sets a new one, so at most one timer is pending; a burst of   *)
(* changes each less than 300 ms after the previous one sends exactly one  *)
(* /calculate request, carrying the inputs of the last change (500 ms for  *)
(* /complete-mtr).                                                         *)
(* Fails as stated: when the burst ends on plan "none" the timer runs      *)
(* fetchApiData, which sets apiData to null and sends no request.          *)
(***************************************************************************)
C26_BurstSendsOneRequest ==
  [][ /\ DebounceSteps
      /\ apiTimerFired => apiInFlight' = Append(apiInFlight, currentInputs)
    ]_vars

(***************************************************************************)
(* C26, amended.  As C26, except that the one call of fetchApiData made    *)
(* after the burst sends a /calculate request only when the plan is not    *)
(* "none"; for "none" it sends nothing and sets apiData to null.  The      *)
(* /complete-mtr request is sent for every plan.                           *)
(***************************************************************************)
C26_BurstSendsOneRequestAmended ==
  [][ /\ DebounceSteps
      /\ apiTimerFired
           => IF selectedPlan = "none"
              THEN apiInFlight' = apiInFlight /\ apiData' = << >>
              ELSE apiInFlight' = Append(apiInFlight, currentInputs)
    ]_vars

\* Witness of C26: the plan was changed before the first request was sent,
\* and the one request in flight carries the changed plan
C26_Witness ==
  /\ apiInFlight = << currentInputs >>
  /\ selectedPlan = "plan1"
  /\ apiTimers = {}
  /\ apiData = << >> /\ apiError = << >>
  /\ completeMtrInFlight = << >> /\ completeMtrData = << >>
  /\ completeMtrError = << >>


====
